---- MODULE Spec2Model ----
(***************************************************************************)
(* Live TV Streaming API (backend/server.py): the Channel Store, the       *)
(* Favorites Store and the request handlers over them.                     *)
(*                                                                         *)
(* A collection is the sequence of its documents in insertion order (the   *)
(* store's natural order: find_one, update_one and delete_one act on the   *)
(* first document that matches).  Optional values are sequences of length  *)
(* at most one: None is <<>> and a present value v is <<v>>.  Strings that *)
(* are pattern-matched (name, category) are sequences of characters.       *)
(* uuid4() is a counter of fresh values, datetime.utcnow() a logical       *)
(* clock that advances with every reading.                                 *)
(*                                                                         *)
(* Every request is a task on the event loop: its handler runs from one    *)
(* await to the next without interruption, and at an await (a storage      *)
(* call) any other task may run.  A specification either admits a request  *)
(* only when no other is in progress, or admits requests that overlap.     *)
(***************************************************************************)
EXTENDS Integers, Sequences, FiniteSets, TLC

VARIABLES
    channels,    \* db.channels: sequence of channel documents
    favorites,   \* db.favorites: sequence of favorites documents
    nextId,      \* the next value uuid4() returns
    clock,       \* the next value datetime.utcnow() returns
    last,        \* history: the request that has just returned and its
                 \* response, when no other request overlapped it
    before,      \* history: both collections when the request in progress
                 \* began, when no other request overlaps it
    created,     \* history: ids of the channel documents ever inserted
    deleted,     \* history: ids of the channel documents delete_one removed
    seeds,       \* history: one entry for each time the sample dataset was
                 \* built: the first id drawn for it, and whether another
                 \* seed request was then between its count and its insert
    pc,          \* per request task: the await it is suspended at
    call,        \* per request task: the handler and its arguments
    loc,         \* per request task: the handler's local variables
    ret,         \* per request task: the response of its last handler
    base,        \* history, per task: its user's channel_ids (its channel's
                 \* document, for a channel request) when it began
    pending,     \* history, per task: the tasks in progress when it began
    joins,       \* history, per task: requests others began since it began
    calls,       \* history: the number of overlapping requests begun
    wrote,       \* history, per task: its request has changed a collection
    failed       \* history, per task: a storage call of its request raised

vars == <<channels, favorites, nextId, clock, last, before, created, deleted,
          seeds, pc, call, loc, ret, base, pending, joins, calls, wrote, failed>>

chanVars == <<channels, created, deleted>>

-----------------------------------------------------------------------------
(* Bounds of the model *)

\* uuid4() values the model hands out to requests other than the seed
MaxId == 3
\* datetime.utcnow() readings the model hands out to requests other than
\* the seed
MaxClock == 3
\* channel documents a store holds before create is refused by the model
MaxChannels == 2
\* times the seed builds the sample dataset
MaxSeeds == 2
\* request tasks that run concurrently
NTasks == 2
\* requests begun, all tasks together, where requests overlap
MaxCalls == 3
\* channels the catalogue requests create, one category more than
\* get_categories returns
CatalogSize == 102

-----------------------------------------------------------------------------
(* Values *)

None == <<>>
Some(v) == <<v>>

Min(a, b) == IF a < b THEN a ELSE b

Range(s) == {s[i] : i \in 1..Len(s)}

\* position of the first element of s that satisfies Holds, 0 when there is none
FirstIdx(s, Holds(_)) ==
    IF \E i \in 1..Len(s) : Holds(s[i])
    THEN CHOOSE i \in 1..Len(s) : Holds(s[i]) /\ \A j \in 1..(i - 1) : ~Holds(s[j])
    ELSE 0

\* s without its element at position i
RemoveAt(s, i) == SubSeq(s, 1, i - 1) \o SubSeq(s, i + 1, Len(s))


-----------------------------------------------------------------------------
(* Characters and strings *)

UpperCase == <<"A","B","C","D","E","F","G","H","I","J","K","L","M",
               "N","O","P","Q","R","S","T","U","V","W","X","Y","Z">>
LowerCase == <<"a","b","c","d","e","f","g","h","i","j","k","l","m",
               "n","o","p","q","r","s","t","u","v","w","x","y","z">>
Digits == <<"0","1","2","3","4","5","6","7","8","9">>

\* the characters of the model in code-point order
AsciiOrder == <<" ", "(", "*", ".">> \o Digits \o UpperCase \o LowerCase

\* the code point order of the characters, as a table
CodeTable ==
    [c \in Range(AsciiOrder) |-> CHOOSE i \in 1..Len(AsciiOrder) : AsciiOrder[i] = c]

Code(c) == CodeTable[c]

\* case folding of the "i" option
Fold(c) ==
    IF \E i \in 1..Len(UpperCase) : UpperCase[i] = c
    THEN LowerCase[CHOOSE i \in 1..Len(UpperCase) : UpperCase[i] = c]
    ELSE c

\* s sorts strictly before t in the store's binary string order
StrLess(s, t) ==
    \E k \in 0..Min(Len(s), Len(t)) :
        /\ \A j \in 1..k : s[j] = t[j]
        /\ \/ k = Len(s) /\ k < Len(t)
           \/ k < Len(s) /\ k < Len(t) /\ Code(s[k + 1]) < Code(t[k + 1])

General == <<"G","e","n","e","r","a","l">>
News == <<"N","e","w","s">>
Entertainment == <<"E","n","t","e","r","t","a","i","n","m","e","n","t">>
Music == <<"M","u","s","i","c">>
Religious == <<"R","e","l","i","g","i","o","u","s">>
TestCategory == <<"T","e","s","t">>
TelePacific == <<"T","e","l","e"," ","P","a","c","i","f","i","c">>
TeleGinen == <<"T","e","l","e"," ","G","i","n","e","n">>
TestChannel == <<"T","e","s","t"," ","C","h","a","n","n","e","l">>
UpdatedTestChannel ==
    <<"U","p","d","a","t","e","d"," ","T","e","s","t"," ","C","h","a","n","n","e","l">>

-----------------------------------------------------------------------------
(* The store's $regex operator with $options "i" *)

\* a pattern over the model's characters compiles unless it opens a group
\* (no character of the model closes one) or has a "*" with nothing to
\* repeat; the store rejects a query whose pattern does not compile
Compiles(re) ==
    \A i \in 1..Len(re) :
        /\ re[i] # "("
        /\ re[i] = "*" => (i > 1 /\ re[i - 1] # "*")

RECURSIVE MatchHere(_, _)
\* re matches a prefix of s
MatchHere(re, s) ==
    IF re = <<>> THEN TRUE
    ELSE IF Len(re) >= 2 /\ re[2] = "*"
    THEN \/ MatchHere(SubSeq(re, 3, Len(re)), s)
         \/ /\ s # <<>>
            /\ (re[1] = "." \/ Fold(re[1]) = Fold(s[1]))
            /\ MatchHere(re, Tail(s))
    ELSE /\ s # <<>>
         /\ (re[1] = "." \/ Fold(re[1]) = Fold(s[1]))
         /\ MatchHere(Tail(re), Tail(s))

\* re matches somewhere in s (the match is not anchored)
RegexSearch(re, s) ==
    \E i \in 0..Len(s) : MatchHere(re, SubSeq(s, i + 1, Len(s)))


-----------------------------------------------------------------------------
(* Models (server.py, lines 27-60) *)

ChannelFields == {"id", "name", "logo", "stream", "category", "description",
                  "is_active", "created_at"}

\* the fields a ChannelUpdate carries
ChannelUpdateFields == {"name", "logo", "stream", "category", "description",
                        "is_active"}

\* Channel(**channel.dict()): id, is_active and created_at take their
\* defaults, category its default when the request leaves it out
Channel(c, uuid, now) ==
    [id |-> uuid,
     name |-> c.name,
     logo |-> c.logo,
     stream |-> c.stream,
     category |-> IF c.category = None THEN General ELSE c.category[1],
     description |-> c.description,
     is_active |-> TRUE,
     created_at |-> now]

\* UserFavorites(user_id=user_id, channel_ids=[])
NewUserFavorites(user_id, uuid, now) ==
    [id |-> uuid, user_id |-> user_id, channel_ids |-> <<>>,
     updated_at |-> now]

\* UserFavorites(**favorites) of a stored document: the document's fields,
\* and a default-factory id when the document has no "id" field
UserFavorites(doc, uuid) ==
    [id |-> IF "id" \in DOMAIN doc THEN doc.id ELSE uuid,
     user_id |-> doc.user_id,
     channel_ids |-> doc.channel_ids,
     updated_at |-> doc.updated_at]

-----------------------------------------------------------------------------
(* The document interface of the store (motor collection calls) *)

\* find_one({key: v}): the first matching document, None when there is none
find_one(coll, key, v) ==
    LET i == FirstIdx(coll, LAMBDA d : d[key] = v)
    IN IF i = 0 THEN None ELSE Some(coll[i])

\* insert_one that acknowledges the document and does not store it
InsertOneNotStored(coll, doc) == coll

insert_one(coll, doc) == Append(coll, doc)

insert_many(coll, docs) == coll \o docs

\* count_documents that finds nothing in any collection
CountDocumentsFindsNone(coll) == 0

count_documents(coll) == Len(coll)

\* $set: the fields of upd replace or are added to those of doc
SetFields(doc, upd) ==
    [k \in DOMAIN doc \cup DOMAIN upd |-> IF k \in DOMAIN upd THEN upd[k] ELSE doc[k]]

\* update_one({key: v}, {"$set": upd}): the first match is updated in place
update_one(coll, key, v, upd) ==
    LET i == FirstIdx(coll, LAMBDA d : d[key] = v)
    IN [coll |-> IF i = 0 THEN coll ELSE [coll EXCEPT ![i] = SetFields(coll[i], upd)],
        matched_count |-> IF i = 0 THEN 0 ELSE 1]

\* update_one({key: v}, {"$set": upd}, upsert=True): when nothing matches, a
\* document made of the query's key and the fields of upd is inserted
update_one_upsert(coll, key, v, upd) ==
    IF update_one(coll, key, v, upd).matched_count = 0
    THEN Append(coll, SetFields((key :> v), upd))
    ELSE update_one(coll, key, v, upd).coll

\* delete_one({key: v}): the first match is removed
delete_one(coll, key, v) ==
    LET i == FirstIdx(coll, LAMBDA d : d[key] = v)
    IN [coll |-> IF i = 0 THEN coll ELSE RemoveAt(coll, i),
        deleted_count |-> IF i = 0 THEN 0 ELSE 1]


-----------------------------------------------------------------------------
(* Channel Management APIs (server.py, lines 62-166 and 232-269)           *)
(*                                                                         *)
(* Each handler is written here as the function of the store it computes   *)
(* when no other request's storage call takes effect between its own; the  *)
(* request tasks further down take the handlers one storage call at a      *)
(* time.                                                                   *)

\* to_list(1000) of get_channels
ListCap == 1000
\* to_list(100) of get_categories
CategoryCap == 100

\* a query parameter counts when it is given and is not the empty string
Truthy(opt) == opt # None /\ opt[1] # <<>>

\* MatchesFilter without line 78: is_active is not part of the query
MatchesFilterAnyActivity(doc, category, search, active_only) ==
    /\ Truthy(category) => RegexSearch(category[1], doc.category)
    /\ Truthy(search) => RegexSearch(search[1], doc.name)

\* the store evaluates a filter_query on one document
MatchesFilter(doc, category, search, active_only) ==
    /\ active_only => doc.is_active = TRUE
    /\ Truthy(category) => RegexSearch(category[1], doc.category)
    /\ Truthy(search) => RegexSearch(search[1], doc.name)

\* GET /channels
get_channels(chs, category, search, active_only) ==
    IF \/ Truthy(category) /\ ~Compiles(category[1])
       \/ Truthy(search) /\ ~Compiles(search[1])
    THEN [status |-> 500, body |-> <<>>]
    ELSE LET found == SelectSeq(chs,
                 LAMBDA d : MatchesFilter(d, category, search, active_only))
         IN [status |-> 200, body |-> SubSeq(found, 1, Min(Len(found), ListCap))]

\* POST /channels
create_channel(chs, c, uuid, now) ==
    [coll |-> insert_one(chs, Channel(c, uuid, now)),
     resp |-> [status |-> 200, body |-> <<Channel(c, uuid, now)>>]]

\* GET /channels/{channel_id}
get_channel(chs, channel_id) ==
    IF find_one(chs, "id", channel_id) = None
    THEN [status |-> 404, body |-> <<>>]
    ELSE [status |-> 200, body |-> find_one(chs, "id", channel_id)]

\* UpdateData as if ChannelUpdate declared ChannelCreate's defaults: a field
\* left out arrives with its default instead of None
UpdateDataWithDefaults(channel_update) ==
    [k \in {f \in ChannelUpdateFields : channel_update[f] # None}
            \cup {"category", "is_active"} |->
        IF channel_update[k] = None
        THEN (IF k = "category" THEN General ELSE TRUE)
        ELSE IF k = "description" THEN channel_update[k] ELSE channel_update[k][1]]

\* {k: v for k, v in channel_update.dict().items() if v is not None}
UpdateData(channel_update) ==
    [k \in {f \in ChannelUpdateFields : channel_update[f] # None} |->
        IF k = "description" THEN channel_update[k] ELSE channel_update[k][1]]

\* update_channel with the update issued before the payload is looked at:
\* an unknown id is reported first, an empty payload only for a known id
UpdateChannelLooksUpFirst(chs, channel_id, channel_update) ==
    LET update_data == UpdateData(channel_update)
        result == update_one(chs, "id", channel_id, update_data)
    IN IF result.matched_count = 0
       THEN [coll |-> chs, resp |-> [status |-> 404, body |-> <<>>]]
       ELSE IF DOMAIN update_data = {}
       THEN [coll |-> chs, resp |-> [status |-> 400, body |-> <<>>]]
       ELSE [coll |-> result.coll,
             resp |-> [status |-> 200,
                       body |-> find_one(result.coll, "id", channel_id)]]

\* PUT /channels/{channel_id}
update_channel(chs, channel_id, channel_update) ==
    LET update_data == UpdateData(channel_update)
        result == update_one(chs, "id", channel_id, update_data)
    IN IF DOMAIN update_data = {}
       THEN [coll |-> chs, resp |-> [status |-> 400, body |-> <<>>]]
       ELSE IF result.matched_count = 0
       THEN [coll |-> result.coll, resp |-> [status |-> 404, body |-> <<>>]]
       ELSE [coll |-> result.coll,
             resp |-> [status |-> 200,
                       body |-> find_one(result.coll, "id", channel_id)]]

\* delete_channel as a soft delete: the document is kept, marked inactive
DeleteChannelDeactivates(chs, channel_id) ==
    LET result == update_one(chs, "id", channel_id, [is_active |-> FALSE])
    IN [coll |-> result.coll,
        resp |-> [status |-> IF result.matched_count = 0 THEN 404 ELSE 200,
                  body |-> <<>>]]

\* delete_channel that answers success whether or not a document was removed
DeleteChannelIgnoresMissing(chs, channel_id) ==
    [coll |-> delete_one(chs, "id", channel_id).coll,
     resp |-> [status |-> 200, body |-> <<>>]]

\* DELETE /channels/{channel_id}
delete_channel(chs, channel_id) ==
    LET result == delete_one(chs, "id", channel_id)
    IN [coll |-> result.coll,
        resp |-> [status |-> IF result.deleted_count = 0 THEN 404 ELSE 200,
                  body |-> <<>>]]

\* CountOf over the active documents only
CountOfActive(chs, cat) ==
    Cardinality({i \in 1..Len(chs) : chs[i].category = cat /\ chs[i].is_active})

\* the number of documents of chs whose category is cat
CountOf(chs, cat) == Cardinality({i \in 1..Len(chs) : chs[i].category = cat})

\* {"$group": {"_id": "$category"}}: one group per category value, named
\* here by the position of the first document that has the value
GroupPositions(chs) ==
    {i \in 1..Len(chs) : \A j \in 1..(i - 1) : chs[j].category # chs[i].category}

\* each group paired with its rank: the number of groups whose value sorts
\* before its own
RankedGroups(chs, groups) ==
    {<<Cardinality({j \in groups : StrLess(chs[j].category, chs[i].category)}), i>> :
        i \in groups}

\* the category values of the groups in the order of their ranks
SortByRank(chs, ranked) ==
    [k \in 1..Cardinality(ranked) |->
        chs[(CHOOSE p \in ranked : p[1] = k - 1)[2]].category]

\* {"$sort": {"_id": 1}}: the category values in ascending order
SortedCategories(chs) ==
    SortByRank(chs, RankedGroups(chs, GroupPositions(chs)))

\* line 163: one entry per group
CategoryEntries(chs, categories) ==
    [i \in 1..Len(categories) |->
        [name |-> categories[i], count |-> CountOf(chs, categories[i])]]

\* the groups the cursor hands over: to_list(100)
FirstGroups(groups) == SubSeq(groups, 1, Min(Len(groups), CategoryCap))

\* GET /categories
get_categories(chs) ==
    [status |-> 200,
     body |-> CategoryEntries(chs,
                FirstGroups(SortedCategories(chs)))]

\* sample_channels, entry by entry (what a ChannelCreate would carry); a
\* logo and a stream are named by the position of their entry
sample_channels ==
    << [name |-> TelePacific, logo |-> "logo1", stream |-> "stream1",
        category |-> Some(News), description |-> None],
       [name |-> TeleGinen, logo |-> "logo2", stream |-> "stream2",
        category |-> Some(General), description |-> None],
       [name |-> <<"H","a","i","t","i"," ","N","e","w","s">>,
        logo |-> "logo3", stream |-> "stream3",
        category |-> Some(News), description |-> None],
       [name |-> <<"A","y","i","t","i"," ","T","V">>,
        logo |-> "logo4", stream |-> "stream4",
        category |-> Some(General), description |-> None],
       [name |-> <<"T","e","l","e","m","i","x">>,
        logo |-> "logo5", stream |-> "stream5",
        category |-> Some(Entertainment), description |-> None],
       [name |-> <<"S","N","L">>,
        logo |-> "logo6", stream |-> "stream6",
        category |-> Some(General), description |-> None],
       [name |-> <<"K","a","j","o","u"," ","T","V">>,
        logo |-> "logo7", stream |-> "stream7",
        category |-> Some(Entertainment), description |-> None],
       [name |-> <<"R","T","H"," ","2","0","0","0">>,
        logo |-> "logo8", stream |-> "stream8",
        category |-> Some(General), description |-> None],
       [name |-> <<"R","a","d","i","o"," ","T","e","l","e"," ",
                   "P","u","i","s","s","a","n","c","e">>,
        logo |-> "logo9", stream |-> "stream9",
        category |-> Some(General), description |-> None],
       [name |-> <<"4","D","i","a","s","p","o"," ","T","V">>,
        logo |-> "logo10", stream |-> "stream10",
        category |-> Some(General), description |-> None],
       [name |-> <<"T","e","l","e"," ","P","a","m">>,
        logo |-> "logo11", stream |-> "stream11",
        category |-> Some(General), description |-> None],
       [name |-> <<"T","r","a","c","e"," ","U","r","b","a","n">>,
        logo |-> "logo12", stream |-> "stream12",
        category |-> Some(Music), description |-> None],
       [name |-> <<"T","r","a","c","e"," ","L","a","t","i","n","a">>,
        logo |-> "logo13", stream |-> "stream13",
        category |-> Some(Music), description |-> None],
       [name |-> <<"B","b","l","a","c","k"," ",
                   "C","a","r","i","b","b","e","a","n">>,
        logo |-> "logo14", stream |-> "stream14",
        category |-> Some(Music), description |-> None],
       [name |-> <<"T","e","l","e"," ","L","o","u","a","n","g","e">>,
        logo |-> "logo15", stream |-> "stream15",
        category |-> Some(Religious), description |-> None] >>

\* initialize_sample_data without the guard of lines 238-240
InitializeSampleDataUnguarded(chs, uuid, now) ==
    LET channels_to_insert ==
            [i \in 1..Len(sample_channels) |->
                Channel(sample_channels[i], uuid + i - 1, now + i - 1)]
    IN [coll |-> insert_many(chs, channels_to_insert),
        resp |-> [status |-> 200,
                  body |-> [message |-> "Sample data initialized successfully",
                            channels_created |-> Len(channels_to_insert)]]]

\* POST /init-data
initialize_sample_data(chs, uuid, now) ==
    LET existing_count == count_documents(chs)
        channels_to_insert ==
            [i \in 1..Len(sample_channels) |->
                Channel(sample_channels[i], uuid + i - 1, now + i - 1)]
    IN IF existing_count > 0
       THEN [coll |-> chs,
             resp |-> [status |-> 200,
                       body |-> [message |-> "Data already initialized",
                                 channels |-> existing_count]]]
       ELSE [coll |-> insert_many(chs, channels_to_insert),
             resp |-> [status |-> 200,
                       body |-> [message |-> "Sample data initialized successfully",
                                 channels_created |-> Len(channels_to_insert)]]]


-----------------------------------------------------------------------------
(* User Favorites APIs (server.py, lines 168-230), each handler as the     *)
(* function it computes when nothing else touches the store meanwhile      *)

\* ToggleList with the two reports exchanged
ToggleListMislabelled(channel_ids, channel_id) ==
    IF channel_id \in Range(channel_ids)
    THEN [channel_ids |-> RemoveAt(channel_ids,
                                   FirstIdx(channel_ids, LAMBDA x : x = channel_id)),
          action |-> "added"]
    ELSE [channel_ids |-> Append(channel_ids, channel_id),
          action |-> "removed"]

\* ToggleList without the membership test: the id is always appended
ToggleListAlwaysAppends(channel_ids, channel_id) ==
    [channel_ids |-> Append(channel_ids, channel_id), action |-> "added"]

\* ToggleList with an assignment in place of the append: a new id becomes
\* the whole list
ToggleListKeepsOnlyNew(channel_ids, channel_id) ==
    IF channel_id \in Range(channel_ids)
    THEN [channel_ids |-> RemoveAt(channel_ids,
                                   FirstIdx(channel_ids, LAMBDA x : x = channel_id)),
          action |-> "removed"]
    ELSE [channel_ids |-> <<channel_id>>, action |-> "added"]

\* lines 213-219 of toggle_favorite: list.remove takes out the first
\* occurrence, list.append adds at the end
ToggleList(channel_ids, channel_id) ==
    IF channel_id \in Range(channel_ids)
    THEN [channel_ids |-> RemoveAt(channel_ids,
                                   FirstIdx(channel_ids, LAMBDA x : x = channel_id)),
          action |-> "removed"]
    ELSE [channel_ids |-> Append(channel_ids, channel_id),
          action |-> "added"]

\* GET /favorites/{user_id}; uuids and ticks count the uuid4() and utcnow()
\* values the handler drew
get_user_favorites(favs, user_id, uuid, now) ==
    LET favorites_doc == find_one(favs, "user_id", user_id)
        favorites_obj == NewUserFavorites(user_id, uuid, now)
    IN IF favorites_doc = None
       THEN [coll |-> insert_one(favs, favorites_obj),
             resp |-> [status |-> 200, body |-> favorites_obj],
             uuids |-> 1, ticks |-> 1]
       ELSE [coll |-> favs,
             resp |-> [status |-> 200, body |-> UserFavorites(favorites_doc[1], uuid)],
             uuids |-> IF "id" \in DOMAIN favorites_doc[1] THEN 0 ELSE 1,
             ticks |-> 0]

\* PUT /favorites/{user_id}
update_user_favorites(favs, user_id, channel_ids, uuid, now) ==
    LET update_data == [channel_ids |-> channel_ids, updated_at |-> now]
        coll == update_one_upsert(favs, "user_id", user_id, update_data)
        favorites_doc == find_one(coll, "user_id", user_id)
    IN [coll |-> coll,
        resp |-> [status |-> 200, body |-> UserFavorites(favorites_doc[1], uuid)],
        uuids |-> IF "id" \in DOMAIN favorites_doc[1] THEN 0 ELSE 1,
        ticks |-> 1]

\* toggle_favorite that looks the channel up first and refuses an id no
\* channel has
ToggleFavoriteKnownChannel(favs, user_id, channel_id, now) ==
    LET found == find_one(favs, "user_id", user_id)
        favorites_doc == IF found = None
                         THEN [user_id |-> user_id, channel_ids |-> <<>>]
                         ELSE found[1]
        toggled == ToggleList(favorites_doc.channel_ids, channel_id)
    IN IF find_one(channels, "id", channel_id) = None
       THEN [coll |-> favs,
             resp |-> [status |-> 404, action |-> "none",
                       channel_id |-> channel_id],
             uuids |-> 0, ticks |-> 0]
       ELSE [coll |-> update_one_upsert(favs, "user_id", user_id,
                        [channel_ids |-> toggled.channel_ids, updated_at |-> now]),
             resp |-> [status |-> 200, action |-> toggled.action,
                       channel_id |-> channel_id],
             uuids |-> 0, ticks |-> 1]

\* POST /favorites/{user_id}/toggle/{channel_id}
toggle_favorite(favs, user_id, channel_id, now) ==
    LET found == find_one(favs, "user_id", user_id)
        favorites_doc == IF found = None
                         THEN [user_id |-> user_id, channel_ids |-> <<>>]
                         ELSE found[1]
        toggled == ToggleList(favorites_doc.channel_ids, channel_id)
    IN [coll |-> update_one_upsert(favs, "user_id", user_id,
                    [channel_ids |-> toggled.channel_ids, updated_at |-> now]),
        resp |-> [status |-> 200, action |-> toggled.action,
                  channel_id |-> channel_id],
        uuids |-> 0, ticks |-> 1]

-----------------------------------------------------------------------------
(* Requests *)

Users == {"u1", "u2"}

\* channel identifiers a favorites request names
FavIds == {1, 2}

\* channel identifiers a channel request names; 0 is never issued
ChannelIds == {0, 1, 2}

\* the lists a replace request carries: the empty list, one id, one id
\* twice, two ids
ReplaceInputs == {<<>>, <<2>>, <<1, 1>>, <<2, 1>>}

CreateInputs ==
    { [name |-> TestChannel, logo |-> "logoA", stream |-> "streamA",
       category |-> Some(TestCategory), description |-> Some("about")],
      [name |-> TeleGinen, logo |-> "logo2", stream |-> "stream2",
       category |-> None, description |-> None] }

NoUpdate == [f \in ChannelUpdateFields |-> None]

UpdateInputs ==
    { NoUpdate,
      [NoUpdate EXCEPT !["name"] = Some(UpdatedTestChannel)],
      [NoUpdate EXCEPT !["logo"] = Some("logoB"), !["stream"] = Some("streamB"),
                       !["category"] = Some(News), !["description"] = Some("news")],
      [NoUpdate EXCEPT !["is_active"] = Some(FALSE)] }

\* the category of the k-th catalogue request: two letters, the same for the
\* first two requests and a new one for every later request, in descending
\* order
CatalogCategory(k) ==
    LET n == CatalogSize + 1 - (IF k < 2 THEN 2 ELSE k)
    IN <<LowerCase[((n - 1) \div 26) + 1], LowerCase[((n - 1) % 26) + 1]>>

\* the payload of the k-th catalogue request
CatalogInput(k) ==
    [name |-> TestChannel, logo |-> "logoA", stream |-> "streamA",
     category |-> Some(CatalogCategory(k)), description |-> None]

\* category filters: absent, empty, a word in the other case, a pattern
\* with "*"
CategoryFilters == {None, Some(<<>>), Some(<<"n","e","w","s">>),
                    Some(<<"t","e","s","*","t">>)}
\* search filters: absent, a word in the other case, a pattern with ".",
\* a pattern that opens a group
SearchFilters == {None, Some(<<"t","e","l","e">>), Some(<<"t",".">>),
                  Some(<<"(">>)}

\* the list requests that are sent: no filter, with and without the
\* inactive channels; a category; an empty category with a search; two
\* patterns; a pattern that does not compile
ListQueries ==
    { [category |-> None, search |-> None, active_only |-> TRUE],
      [category |-> None, search |-> None, active_only |-> FALSE],
      [category |-> Some(<<"n","e","w","s">>), search |-> None,
       active_only |-> TRUE],
      [category |-> Some(<<>>), search |-> Some(<<"t","e","l","e">>),
       active_only |-> TRUE],
      [category |-> Some(<<"t","e","s","*","t">>), search |-> Some(<<"t",".">>),
       active_only |-> FALSE],
      [category |-> None, search |-> Some(<<"(">>), active_only |-> TRUE] }


-----------------------------------------------------------------------------
(* Initial state: empty collections, no request in progress *)

Tasks == 1..NTasks

NoLast == [op |-> "none"]

NoStores == [channels |-> <<>>, favorites |-> <<>>]

Init ==
    /\ channels = <<>>
    /\ favorites = <<>>
    /\ nextId = 1
    /\ clock = 1
    /\ last = NoLast
    /\ before = NoStores
    /\ created = {}
    /\ deleted = {}
    /\ seeds = <<>>
    /\ pc = [t \in Tasks |-> "idle"]
    /\ call = [t \in Tasks |-> [op |-> "none"]]
    /\ loc = [t \in Tasks |-> <<>>]
    /\ ret = [t \in Tasks |-> [status |-> 0]]
    /\ base = [t \in Tasks |-> <<>>]
    /\ pending = [t \in Tasks |-> {}]
    /\ joins = [t \in Tasks |-> 0]
    /\ calls = 0
    /\ wrote = [t \in Tasks |-> FALSE]
    /\ failed = [t \in Tasks |-> FALSE]

\* the model can hand out n more uuid4() values and m more utcnow()
\* readings; what the seed drew does not count
CanDraw(n, m) ==
    /\ nextId + n - 1 <= MaxId + Len(seeds) * Len(sample_channels)
    /\ clock + m - 1 <= MaxClock + Len(seeds) * Len(sample_channels)

-----------------------------------------------------------------------------
(* Request tasks on the event loop.  A handler runs from one await to the  *)
(* next without interruption; at an await (a storage call) the loop may    *)
(* run any other task.  One step is: the awaited storage call takes        *)
(* effect, and the handler runs on to its next await or to its return.     *)

\* the channel_ids of the first document of user_id, [] when there is none
UserList(favs, user_id) ==
    IF find_one(favs, "user_id", user_id) = None THEN <<>>
    ELSE find_one(favs, "user_id", user_id)[1].channel_ids

InProgress == {t \in Tasks : pc[t] # "idle"}

\* a request is sent only when every earlier one has been answered
InTurn == InProgress = {} /\ UNCHANGED calls

\* a request is sent whatever is in progress
Overlapping == calls < MaxCalls /\ calls' = calls + 1

\* the arguments of a request, in the order of the handler's parameters
ArgsOf(c) ==
    CASE c.op = "get_channels" -> <<c.category, c.search, c.active_only>>
      [] c.op = "create_channel" -> <<c.channel>>
      [] c.op \in {"get_channel", "delete_channel"} -> <<c.channel_id>>
      [] c.op = "update_channel" -> <<c.channel_id, c.channel_update>>
      [] c.op = "get_user_favorites" -> <<c.user_id>>
      [] c.op = "update_user_favorites" -> <<c.user_id, c.channel_ids>>
      [] c.op = "toggle_favorite" -> <<c.user_id, c.channel_id>>
      [] OTHER -> <<>>

\* a request arrives and is given the first free task t (the tasks are
\* interchangeable); the history of who overlaps whom
Begin(t, c, at) ==
    /\ pc[t] = "idle"
    /\ \A x \in 1..(t - 1) : pc[x] # "idle"
    /\ pc' = [pc EXCEPT ![t] = at]
    /\ call' = [call EXCEPT ![t] = c]
    /\ base' = [base EXCEPT ![t] =
                 IF "user_id" \in DOMAIN c THEN UserList(favorites, c.user_id)
                 ELSE IF "channel_id" \in DOMAIN c
                 THEN find_one(channels, "id", c.channel_id)
                 ELSE <<>>]
    /\ pending' = [pending EXCEPT ![t] = InProgress]
    /\ joins' = [x \in Tasks |->
                   IF x = t THEN 0
                   ELSE IF call[x].op = "none" THEN joins[x]
                   ELSE Min(joins[x] + 1, 2)]
    /\ wrote' = [wrote EXCEPT ![t] = FALSE]
    /\ failed' = [failed EXCEPT ![t] = FALSE]
    /\ before' = IF InProgress = {}
                 THEN [channels |-> channels, favorites |-> favorites]
                 ELSE NoStores

\* what the history keeps of the request of t when it answers resp
Handled(t, resp) ==
    IF pending[t] = {} /\ joins[t] = 0
    THEN [op |-> call[t].op, args |-> ArgsOf(call[t]), resp |-> resp]
    ELSE NoLast

Return(t, resp) ==
    /\ pc' = [pc EXCEPT ![t] = "idle"]
    /\ ret' = [ret EXCEPT ![t] = resp]
    /\ loc' = [loc EXCEPT ![t] = <<>>]
    /\ last' = Handled(t, resp)
    /\ UNCHANGED <<call, base, pending, joins, calls, failed, before>>

Await(t, at, locals) ==
    /\ pc' = [pc EXCEPT ![t] = at]
    /\ loc' = [loc EXCEPT ![t] = locals]
    /\ UNCHANGED <<call, ret, base, pending, joins, calls, failed, last, before>>

\* the request of t has no response yet
Unanswered(t) == ret' = [ret EXCEPT ![t] = [status |-> 0]]

\* the history of t's writes, for a step whose storage call has taken effect
Wrote(t) ==
    wrote' = [wrote EXCEPT ![t] = @ \/ channels' # channels
                                    \/ favorites' # favorites]

-----------------------------------------------------------------------------
(* User Favorites requests *)

\* get_user_favorites up to its find_one
BeginGet(t, user_id) ==
    /\ Begin(t, [op |-> "get_user_favorites", user_id |-> user_id], "get_find")
    /\ last' = NoLast
    /\ UNCHANGED <<chanVars, favorites, nextId, clock, seeds, loc>>
    /\ Unanswered(t)

\* line 173 answers; lines 174-179
GetFind(t) ==
    LET favorites_doc == find_one(favorites, "user_id", call[t].user_id)
    IN /\ pc[t] = "get_find"
       /\ IF favorites_doc = None
          THEN /\ CanDraw(1, 1)
               /\ Await(t, "get_insert",
                    [favorites_obj |-> NewUserFavorites(call[t].user_id, nextId, clock)])
               /\ nextId' = nextId + 1
               /\ clock' = clock + 1
          ELSE /\ "id" \notin DOMAIN favorites_doc[1] => CanDraw(1, 0)
               /\ Return(t, [status |-> 200,
                             body |-> UserFavorites(favorites_doc[1], nextId)])
               /\ nextId' = IF "id" \in DOMAIN favorites_doc[1]
                            THEN nextId ELSE nextId + 1
               /\ UNCHANGED clock
       /\ UNCHANGED <<chanVars, favorites, seeds>>
       /\ Wrote(t)

\* line 177 takes effect; line 178
GetInsert(t) ==
    /\ pc[t] = "get_insert"
    /\ favorites' = insert_one(favorites, loc[t].favorites_obj)
    /\ Return(t, [status |-> 200, body |-> loc[t].favorites_obj])
    /\ UNCHANGED <<chanVars, nextId, clock, seeds>>
    /\ Wrote(t)

\* update_user_favorites up to its update_one: lines 188-191
BeginReplace(t, user_id, channel_ids) ==
    /\ CanDraw(0, 1)
    /\ Begin(t, [op |-> "update_user_favorites", user_id |-> user_id,
                 channel_ids |-> channel_ids], "put_update")
    /\ loc' = [loc EXCEPT ![t] =
                 [update_data |-> [channel_ids |-> channel_ids, updated_at |-> clock]]]
    /\ clock' = clock + 1
    /\ last' = NoLast
    /\ UNCHANGED <<chanVars, favorites, nextId, seeds>>
    /\ Unanswered(t)

\* lines 193-197 take effect
ReplaceUpdate(t) ==
    /\ pc[t] = "put_update"
    /\ favorites' = update_one_upsert(favorites, "user_id", call[t].user_id,
                                      loc[t].update_data)
    /\ Await(t, "put_find", loc[t])
    /\ UNCHANGED <<chanVars, nextId, clock, seeds>>
    /\ Wrote(t)

\* line 199 answers; line 200
ReplaceFind(t) ==
    LET favorites_doc == find_one(favorites, "user_id", call[t].user_id)
    IN /\ pc[t] = "put_find"
       /\ "id" \notin DOMAIN favorites_doc[1] => CanDraw(1, 0)
       /\ Return(t, [status |-> 200,
                     body |-> UserFavorites(favorites_doc[1], nextId)])
       /\ nextId' = IF "id" \in DOMAIN favorites_doc[1] THEN nextId ELSE nextId + 1
       /\ UNCHANGED <<chanVars, favorites, clock, seeds>>
       /\ Wrote(t)

\* toggle_favorite up to its find_one
BeginToggle(t, user_id, channel_id) ==
    /\ Begin(t, [op |-> "toggle_favorite", user_id |-> user_id,
                 channel_id |-> channel_id], "toggle_find")
    /\ last' = NoLast
    /\ UNCHANGED <<chanVars, favorites, nextId, clock, seeds, loc>>
    /\ Unanswered(t)

\* line 209 answers; lines 210-223
ToggleFind(t) ==
    LET found == find_one(favorites, "user_id", call[t].user_id)
        favorites_doc == IF found = None
                         THEN [user_id |-> call[t].user_id, channel_ids |-> <<>>]
                         ELSE found[1]
        toggled == ToggleList(favorites_doc.channel_ids, call[t].channel_id)
    IN /\ pc[t] = "toggle_find"
       /\ CanDraw(0, 1)
       /\ Await(t, "toggle_update",
                [channel_ids |-> toggled.channel_ids, action |-> toggled.action,
                 updated_at |-> clock])
       /\ clock' = clock + 1
       /\ UNCHANGED <<chanVars, favorites, nextId, seeds>>
       /\ Wrote(t)

\* lines 221-225 take effect; line 227
ToggleUpdate(t) ==
    /\ pc[t] = "toggle_update"
    /\ favorites' = update_one_upsert(favorites, "user_id", call[t].user_id,
                        [channel_ids |-> loc[t].channel_ids,
                         updated_at |-> loc[t].updated_at])
    /\ Return(t, [status |-> 200, action |-> loc[t].action,
                  channel_id |-> call[t].channel_id])
    /\ UNCHANGED <<chanVars, nextId, clock, seeds>>
    /\ Wrote(t)

-----------------------------------------------------------------------------
(* Channel Management requests, and storage calls that raise *)

\* get_channels up to its find: lines 74-84
BeginGetChannels(t, category, search, active_only) ==
    /\ Begin(t, [op |-> "get_channels", category |-> category,
                 search |-> search, active_only |-> active_only], "channels_find")
    /\ last' = NoLast
    /\ UNCHANGED <<chanVars, favorites, nextId, clock, seeds, loc>>
    /\ Unanswered(t)

\* line 84 answers; line 85
GetChannelsFind(t) ==
    /\ pc[t] = "channels_find"
    /\ Return(t, get_channels(channels, call[t].category, call[t].search,
                              call[t].active_only))
    /\ UNCHANGED <<chanVars, favorites, nextId, clock, seeds>>
    /\ Wrote(t)

\* create_channel up to its insert_one: lines 94-95
CreateBuilds(t, c) ==
    /\ Begin(t, [op |-> "create_channel", channel |-> c], "create_insert")
    /\ loc' = [loc EXCEPT ![t] = [channel_obj |-> Channel(c, nextId, clock)]]
    /\ nextId' = nextId + 1
    /\ clock' = clock + 1
    /\ last' = NoLast
    /\ UNCHANGED <<chanVars, favorites, seeds>>
    /\ Unanswered(t)

\* POST /channels, while the model admits another channel
BeginCreate(t, c) ==
    /\ Len(channels) < MaxChannels
    /\ CanDraw(1, 1)
    /\ CreateBuilds(t, c)

\* POST /channels with the next payload of the catalogue
CreateCatalogued(t) ==
    /\ nextId <= CatalogSize
    /\ CreateBuilds(t, CatalogInput(nextId))

\* line 96 takes effect; line 97
CreateInsert(t) ==
    /\ pc[t] = "create_insert"
    /\ channels' = insert_one(channels, loc[t].channel_obj)
    /\ created' = created \cup {loc[t].channel_obj.id}
    /\ Return(t, [status |-> 200, body |-> <<loc[t].channel_obj>>])
    /\ UNCHANGED <<deleted, favorites, nextId, clock, seeds>>
    /\ Wrote(t)

\* get_channel up to its find_one
BeginGetChannel(t, channel_id) ==
    /\ Begin(t, [op |-> "get_channel", channel_id |-> channel_id], "channel_find")
    /\ last' = NoLast
    /\ UNCHANGED <<chanVars, favorites, nextId, clock, seeds, loc>>
    /\ Unanswered(t)

\* line 106 answers; lines 107-109
GetChannelFind(t) ==
    /\ pc[t] = "channel_find"
    /\ Return(t, get_channel(channels, call[t].channel_id))
    /\ UNCHANGED <<chanVars, favorites, nextId, clock, seeds>>
    /\ Wrote(t)

\* update_channel up to its update_one: lines 120-122; an empty update_data
\* is answered at once
BeginUpdate(t, channel_id, channel_update) ==
    /\ Begin(t, [op |-> "update_channel", channel_id |-> channel_id,
                 channel_update |-> channel_update],
             IF DOMAIN UpdateData(channel_update) = {} THEN "idle" ELSE "update_update")
    /\ IF DOMAIN UpdateData(channel_update) = {}
       THEN /\ ret' = [ret EXCEPT ![t] = [status |-> 400, body |-> <<>>]]
            /\ last' = IF InProgress = {}
                       THEN [op |-> "update_channel",
                             args |-> <<channel_id, channel_update>>,
                             resp |-> [status |-> 400, body |-> <<>>]]
                       ELSE NoLast
            /\ UNCHANGED loc
       ELSE /\ loc' = [loc EXCEPT ![t] = [update_data |-> UpdateData(channel_update)]]
            /\ last' = NoLast
            /\ Unanswered(t)
    /\ UNCHANGED <<chanVars, favorites, nextId, clock, seeds>>

\* lines 124-127 take effect; lines 129-130
UpdateUpdate(t) ==
    LET result == update_one(channels, "id", call[t].channel_id, loc[t].update_data)
    IN /\ pc[t] = "update_update"
       /\ channels' = result.coll
       /\ IF result.matched_count = 0
          THEN Return(t, [status |-> 404, body |-> <<>>])
          ELSE Await(t, "update_find", loc[t])
       /\ UNCHANGED <<created, deleted, favorites, nextId, clock, seeds>>
       /\ Wrote(t)

\* line 132 answers; line 133: Channel(**None) raises a TypeError, which
\* line 136 catches
UpdateFind(t) ==
    LET updated_channel == find_one(channels, "id", call[t].channel_id)
    IN /\ pc[t] = "update_find"
       /\ IF updated_channel = None
          THEN Return(t, [status |-> 500, body |-> <<>>])
          ELSE Return(t, [status |-> 200, body |-> updated_channel])
       /\ UNCHANGED <<chanVars, favorites, nextId, clock, seeds>>
       /\ Wrote(t)

\* delete_channel up to its delete_one
BeginDelete(t, channel_id) ==
    /\ Begin(t, [op |-> "delete_channel", channel_id |-> channel_id], "delete_delete")
    /\ last' = NoLast
    /\ UNCHANGED <<chanVars, favorites, nextId, clock, seeds, loc>>
    /\ Unanswered(t)

\* line 144 takes effect; lines 145-147
DeleteDelete(t) ==
    LET r == delete_channel(channels, call[t].channel_id)
    IN /\ pc[t] = "delete_delete"
       /\ channels' = r.coll
       /\ deleted' = IF r.resp.status = 200
                     THEN deleted \cup {call[t].channel_id} ELSE deleted
       /\ Return(t, r.resp)
       /\ UNCHANGED <<created, favorites, nextId, clock, seeds>>
       /\ Wrote(t)

\* get_categories up to its aggregate: lines 157-162
BeginGetCategories(t) ==
    /\ Begin(t, [op |-> "get_categories"], "categories_aggregate")
    /\ last' = NoLast
    /\ UNCHANGED <<chanVars, favorites, nextId, clock, seeds, loc>>
    /\ Unanswered(t)

\* line 162 answers; line 163
CategoriesAggregate(t) ==
    /\ pc[t] = "categories_aggregate"
    /\ Return(t, get_categories(channels))
    /\ UNCHANGED <<chanVars, favorites, nextId, clock, seeds>>
    /\ Wrote(t)

\* initialize_sample_data up to its count_documents
BeginSeed(t) ==
    /\ Begin(t, [op |-> "initialize_sample_data"], "seed_count")
    /\ last' = NoLast
    /\ UNCHANGED <<chanVars, favorites, nextId, clock, seeds, loc>>
    /\ Unanswered(t)

\* line 238 answers; lines 239-263
SeedCount(t) ==
    LET existing_count == count_documents(channels)
        n == Len(sample_channels)
    IN /\ pc[t] = "seed_count"
       /\ IF existing_count > 0
          THEN /\ Return(t, [status |-> 200,
                             body |-> [message |-> "Data already initialized",
                                       channels |-> existing_count]])
               /\ UNCHANGED <<nextId, clock, seeds>>
          ELSE /\ Len(seeds) < MaxSeeds
               /\ Await(t, "seed_insert",
                    [channels_to_insert |->
                        [i \in 1..n |-> Channel(sample_channels[i],
                                                nextId + i - 1, clock + i - 1)]])
               /\ nextId' = nextId + n
               /\ clock' = clock + n
               /\ seeds' = Append(seeds,
                      [first |-> nextId,
                       overlapped |-> \E u \in Tasks \ {t} :
                                          pc[u] = "seed_insert"])
       /\ UNCHANGED <<chanVars, favorites>>
       /\ Wrote(t)

\* line 265 takes effect; line 266
SeedInsert(t) ==
    /\ pc[t] = "seed_insert"
    /\ channels' = insert_many(channels, loc[t].channels_to_insert)
    /\ created' = created \cup {loc[t].channels_to_insert[i].id :
                                  i \in 1..Len(loc[t].channels_to_insert)}
    /\ Return(t, [status |-> 200,
                  body |-> [message |-> "Sample data initialized successfully",
                            channels_created |-> Len(loc[t].channels_to_insert)]])
    /\ UNCHANGED <<deleted, favorites, nextId, clock, seeds>>
    /\ Wrote(t)

\* the storage call task t awaits raises instead of taking effect; the
\* handler's "except Exception" answers 500
StorageFails(t) ==
    /\ pc[t] # "idle"
    /\ pc' = [pc EXCEPT ![t] = "idle"]
    /\ ret' = [ret EXCEPT ![t] = [status |-> 500, body |-> <<>>]]
    /\ loc' = [loc EXCEPT ![t] = <<>>]
    /\ failed' = [failed EXCEPT ![t] = TRUE]
    /\ last' = Handled(t, [status |-> 500, body |-> <<>>])
    /\ UNCHANGED <<chanVars, favorites, nextId, clock, seeds, before,
                   call, base, pending, joins, calls, wrote>>

-----------------------------------------------------------------------------
(* Specifications in which a request is sent only when every earlier one   *)
(* has been answered                                                       *)

\* the Channel Management APIs
NextChannels ==
    \/ \E t \in Tasks, q \in ListQueries :
          InTurn /\ BeginGetChannels(t, q.category, q.search, q.active_only)
    \/ \E t \in Tasks : GetChannelsFind(t)
    \/ \E t \in Tasks, c \in CreateInputs : InTurn /\ BeginCreate(t, c)
    \/ \E t \in Tasks : CreateInsert(t)
    \/ \E t \in Tasks, channel_id \in ChannelIds :
          InTurn /\ BeginGetChannel(t, channel_id)
    \/ \E t \in Tasks : GetChannelFind(t)
    \/ \E t \in Tasks, channel_id \in ChannelIds, channel_update \in UpdateInputs :
          InTurn /\ BeginUpdate(t, channel_id, channel_update)
    \/ \E t \in Tasks : UpdateUpdate(t)
    \/ \E t \in Tasks : UpdateFind(t)
    \/ \E t \in Tasks, channel_id \in ChannelIds :
          InTurn /\ BeginDelete(t, channel_id)
    \/ \E t \in Tasks : DeleteDelete(t)
    \/ \E t \in Tasks : InTurn /\ BeginGetCategories(t)
    \/ \E t \in Tasks : CategoriesAggregate(t)
    \/ \E t \in Tasks : InTurn /\ BeginSeed(t)
    \/ \E t \in Tasks : SeedCount(t)
    \/ \E t \in Tasks : SeedInsert(t)

\* the User Favorites APIs
NextFavorites ==
    \/ \E t \in Tasks, user_id \in Users : InTurn /\ BeginGet(t, user_id)
    \/ \E t \in Tasks : GetFind(t)
    \/ \E t \in Tasks : GetInsert(t)
    \/ \E t \in Tasks, user_id \in Users, channel_ids \in ReplaceInputs :
          InTurn /\ BeginReplace(t, user_id, channel_ids)
    \/ \E t \in Tasks : ReplaceUpdate(t)
    \/ \E t \in Tasks : ReplaceFind(t)
    \/ \E t \in Tasks, user_id \in Users, channel_id \in FavIds :
          InTurn /\ BeginToggle(t, user_id, channel_id)
    \/ \E t \in Tasks : ToggleFind(t)
    \/ \E t \in Tasks : ToggleUpdate(t)

\* a catalogue of many categories is built, its first channel is
\* deactivated or deleted, and the categories are asked for
NextCatalog ==
    \/ \E t \in Tasks : InTurn /\ CreateCatalogued(t)
    \/ \E t \in Tasks : CreateInsert(t)
    \/ \E t \in Tasks :
          InTurn /\ BeginUpdate(t, 1, [NoUpdate EXCEPT !["is_active"] = Some(FALSE)])
    \/ \E t \in Tasks : UpdateUpdate(t)
    \/ \E t \in Tasks : UpdateFind(t)
    \/ \E t \in Tasks : InTurn /\ BeginDelete(t, 1)
    \/ \E t \in Tasks : DeleteDelete(t)
    \/ \E t \in Tasks : InTurn /\ BeginGetCategories(t)
    \/ \E t \in Tasks : CategoriesAggregate(t)

\* the requests that write to either store: channels are created, renamed,
\* deleted and seeded while one user's favorites are replaced and every
\* user's are toggled
NextStores ==
    \/ \E t \in Tasks, c \in CreateInputs : InTurn /\ BeginCreate(t, c)
    \/ \E t \in Tasks : CreateInsert(t)
    \/ \E t \in Tasks, channel_id \in FavIds :
          InTurn /\ BeginUpdate(t, channel_id,
                        [NoUpdate EXCEPT !["name"] = Some(UpdatedTestChannel)])
    \/ \E t \in Tasks : UpdateUpdate(t)
    \/ \E t \in Tasks : UpdateFind(t)
    \/ \E t \in Tasks, channel_id \in FavIds :
          InTurn /\ BeginDelete(t, channel_id)
    \/ \E t \in Tasks : DeleteDelete(t)
    \/ \E t \in Tasks : InTurn /\ BeginSeed(t)
    \/ \E t \in Tasks : SeedCount(t)
    \/ \E t \in Tasks : SeedInsert(t)
    \/ \E t \in Tasks, channel_ids \in ReplaceInputs :
          InTurn /\ BeginReplace(t, "u1", channel_ids)
    \/ \E t \in Tasks : ReplaceUpdate(t)
    \/ \E t \in Tasks : ReplaceFind(t)
    \/ \E t \in Tasks, user_id \in Users, channel_id \in FavIds :
          InTurn /\ BeginToggle(t, user_id, channel_id)
    \/ \E t \in Tasks : ToggleFind(t)
    \/ \E t \in Tasks : ToggleUpdate(t)

SpecChannels == Init /\ [][NextChannels]_vars

SpecFavorites == Init /\ [][NextFavorites]_vars

SpecCatalog == Init /\ [][NextCatalog]_vars

SpecStores == Init /\ [][NextStores]_vars

-----------------------------------------------------------------------------
(* Specifications in which requests overlap: a request is sent whatever is *)
(* in progress, and the tasks are interleaved at their awaits              *)

\* toggle and get-or-create requests
NextToggleTasks ==
    \/ \E t \in Tasks, user_id \in Users : Overlapping /\ BeginGet(t, user_id)
    \/ \E t \in Tasks : GetFind(t)
    \/ \E t \in Tasks : GetInsert(t)
    \/ \E t \in Tasks, user_id \in Users, channel_id \in FavIds :
          Overlapping /\ BeginToggle(t, user_id, channel_id)
    \/ \E t \in Tasks : ToggleFind(t)
    \/ \E t \in Tasks : ToggleUpdate(t)

\* all User Favorites requests
NextTasks ==
    \/ NextToggleTasks
    \/ \E t \in Tasks, user_id \in Users, channel_ids \in ReplaceInputs :
          Overlapping /\ BeginReplace(t, user_id, channel_ids)
    \/ \E t \in Tasks : ReplaceUpdate(t)
    \/ \E t \in Tasks : ReplaceFind(t)

\* seed and create requests
NextSeedTasks ==
    \/ \E t \in Tasks : Overlapping /\ BeginSeed(t)
    \/ \E t \in Tasks : SeedCount(t)
    \/ \E t \in Tasks : SeedInsert(t)
    \/ \E t \in Tasks, c \in CreateInputs : Overlapping /\ BeginCreate(t, c)
    \/ \E t \in Tasks : CreateInsert(t)

\* create, get, update, delete and toggle requests, with storage calls
\* that raise
NextFaults ==
    \/ \E t \in Tasks, c \in CreateInputs : Overlapping /\ BeginCreate(t, c)
    \/ \E t \in Tasks : CreateInsert(t)
    \/ \E t \in Tasks, channel_id \in ChannelIds :
          Overlapping /\ BeginGetChannel(t, channel_id)
    \/ \E t \in Tasks : GetChannelFind(t)
    \/ \E t \in Tasks, channel_id \in ChannelIds, channel_update \in UpdateInputs :
          Overlapping /\ BeginUpdate(t, channel_id, channel_update)
    \/ \E t \in Tasks : UpdateUpdate(t)
    \/ \E t \in Tasks : UpdateFind(t)
    \/ \E t \in Tasks, channel_id \in ChannelIds :
          Overlapping /\ BeginDelete(t, channel_id)
    \/ \E t \in Tasks : DeleteDelete(t)
    \/ \E t \in Tasks, user_id \in Users, channel_id \in FavIds :
          Overlapping /\ BeginToggle(t, user_id, channel_id)
    \/ \E t \in Tasks : ToggleFind(t)
    \/ \E t \in Tasks : ToggleUpdate(t)
    \/ \E t \in Tasks : StorageFails(t)

SpecToggleTasks == Init /\ [][NextToggleTasks]_vars

SpecTasks == Init /\ [][NextTasks]_vars

SpecSeedTasks == Init /\ [][NextSeedTasks]_vars

SpecFaults == Init /\ [][NextFaults]_vars

Next == NextChannels \/ NextFavorites \/ NextTasks \/ NextStores \/ NextCatalog
           \/ NextSeedTasks \/ NextFaults

Spec == Init /\ [][Next]_vars


-----------------------------------------------------------------------------
(* The handler functions and the request tasks agree: a request that no    *)
(* other request overlapped has left the store and answered as its handler *)
(* function says, given the uuid4() and utcnow() values it drew.           *)

AloneAgreesFavorites ==
    /\ last.op = "toggle_favorite" =>
          LET r == toggle_favorite(before.favorites, last.args[1], last.args[2],
                                   clock - 1)
          IN r.coll = favorites /\ r.resp = last.resp
    /\ last.op = "get_user_favorites" =>
          \E uuid \in {nextId - 1, nextId}, now \in {clock - 1, clock} :
             LET r == get_user_favorites(before.favorites, last.args[1], uuid, now)
             IN /\ r.coll = favorites /\ r.resp = last.resp
                /\ nextId = uuid + r.uuids /\ clock = now + r.ticks
    /\ last.op = "update_user_favorites" =>
          \E uuid \in {nextId - 1, nextId} :
             LET r == update_user_favorites(before.favorites, last.args[1],
                                            last.args[2], uuid, clock - 1)
             IN /\ r.coll = favorites /\ r.resp = last.resp
                /\ nextId = uuid + r.uuids

AloneAgreesChannels ==
    /\ last.op = "get_channels" =>
          /\ last.resp = get_channels(before.channels, last.args[1], last.args[2],
                                      last.args[3])
          /\ channels = before.channels
    /\ last.op = "create_channel" =>
          LET r == create_channel(before.channels, last.args[1], nextId - 1,
                                  clock - 1)
          IN r.coll = channels /\ r.resp = last.resp
    /\ last.op = "get_channel" =>
          /\ last.resp = get_channel(before.channels, last.args[1])
          /\ channels = before.channels
    /\ last.op = "update_channel" =>
          LET r == update_channel(before.channels, last.args[1], last.args[2])
          IN r.coll = channels /\ r.resp = last.resp
    /\ last.op = "delete_channel" =>
          LET r == delete_channel(before.channels, last.args[1])
          IN r.coll = channels /\ r.resp = last.resp
    /\ last.op = "get_categories" =>
          /\ last.resp = get_categories(before.channels)
          /\ channels = before.channels
    /\ last.op = "initialize_sample_data" =>
          \E k \in {0, Len(sample_channels)} :
             LET r == initialize_sample_data(before.channels, nextId - k, clock - k)
             IN /\ r.coll = channels /\ r.resp = last.resp
                /\ Len(channels) - Len(before.channels) = k

-----------------------------------------------------------------------------
(* Claims on the User Favorites APIs, a request sent only when the earlier *)
(* ones have been answered                                                 *)
(* (SpecFavorites)                                                         *)

\* C2: a toggle handled alone leaves channel_id a member of the user's
\* channel_ids exactly when it was not a member before, in every reachable
\* record, those written by replace included.
C2_ToggleFlipsMembership ==
    last.op = "toggle_favorite" =>
        LET user_id == last.args[1]
            channel_id == last.args[2]
        IN (channel_id \in Range(UserList(favorites, user_id)))
             <=> (channel_id \notin Range(UserList(before.favorites, user_id)))

\* C4: toggle succeeds in every state, with or without a record of the
\* user (one exists afterwards); it reports "removed" exactly when
\* channel_id was in the user's channel_ids before, "added" exactly when it
\* was not, and reports the channel_id it was given.
C4_ToggleReports ==
    /\ \A user_id \in Users, channel_id \in FavIds :
          toggle_favorite(favorites, user_id, channel_id, clock).resp.status = 200
    /\ last.op = "toggle_favorite" =>
          LET user_id == last.args[1]
              channel_id == last.args[2]
              was == channel_id \in Range(UserList(before.favorites, user_id))
          IN /\ last.resp.status = 200
             /\ last.resp.channel_id = channel_id
             /\ last.resp.action = "removed" <=> was
             /\ last.resp.action = "added" <=> ~was
             /\ find_one(favorites, "user_id", user_id) # None

\* a toggle reported "removed", and another created the user's record
C4_Witness ==
    /\ last.op = "toggle_favorite"
    /\ last.resp.action = "removed"
    /\ \E user_id \in Users :
          /\ find_one(favorites, "user_id", user_id) # None
          /\ "id" \notin DOMAIN find_one(favorites, "user_id", user_id)[1]

\* C5: get-or-create for a user with no record answers a record with empty
\* channel_ids and stores exactly that record; asked again with nothing in
\* between it answers the same record (same id) and the collection is the
\* same, with the same number of documents.
C5_GetOrCreateOnce ==
    (last.op = "get_user_favorites"
       /\ find_one(before.favorites, "user_id", last.args[1]) = None) =>
        LET user_id == last.args[1]
            again == get_user_favorites(favorites, user_id, nextId, clock)
        IN /\ last.resp.status = 200
           /\ last.resp.body.channel_ids = <<>>
           /\ last.resp.body.user_id = user_id
           /\ find_one(favorites, "user_id", user_id) = Some(last.resp.body)
           /\ Len(favorites) = Len(before.favorites) + 1
           /\ again.coll = favorites
           /\ again.resp.body = last.resp.body
           /\ again.resp.body.id = last.resp.body.id

\* a get-or-create has just made a second user's record
C5_Witness ==
    /\ last.op = "get_user_favorites"
    /\ find_one(before.favorites, "user_id", last.args[1]) = None
    /\ Len(favorites) = 2


\* C21: a read of a user's record (a get-or-create, or the record a
\* replace answers) followed at once by a get-or-create answers the same
\* record id, also when the record was first stored by a toggle or by a
\* replace.
C21_StableIdentity ==
    (last.op \in {"get_user_favorites", "update_user_favorites"}) =>
        get_user_favorites(favorites, last.args[1], nextId, clock).resp.body.id
            = last.resp.body.id

-----------------------------------------------------------------------------
(* Claims on the Channel Management APIs, a request sent only when the     *)
(* earlier ones have been answered                                         *)
(* (SpecChannels)                                                          *)

RECURSIVE SumCounts(_)
\* the sum of the counts of a categories response body
SumCounts(body) ==
    IF body = <<>> THEN 0 ELSE Head(body).count + SumCounts(Tail(body))

\* C8: once a created channel has been deleted, get of its id answers 404
\* in every later state, whatever was created, updated, seeded or listed
\* since; no list result holds it, whatever the filters, and the category
\* counts do not count it.
C8_DeletedStaysGone ==
    /\ \A channel_id \in deleted : get_channel(channels, channel_id).status = 404
    /\ last.op = "get_channel" =>
          (last.args[1] \in deleted => last.resp.status = 404)
    /\ last.op = "get_channels" =>
          /\ \A d \in Range(last.resp.body) : d.id \notin deleted
          /\ \A category \in CategoryFilters, search \in SearchFilters,
                active_only \in BOOLEAN :
                \A d \in Range(get_channels(channels, category, search,
                                            active_only).body) :
                    d.id \notin deleted
    /\ last.op = "get_categories" =>
          SumCounts(last.resp.body) = Cardinality(created \ deleted)

\* a get of a deleted id answered 404 while a channel created after it is
\* in the store
C8_Witness ==
    /\ last.op = "get_channel"
    /\ last.args[1] \in deleted
    /\ last.resp.status = 404
    /\ \E d \in Range(channels) : d.id > last.args[1]

\* C9: an update of an existing channel gives every field that is non-null
\* in the payload the payload's value and leaves every other field of that
\* document as it was; no update changes any document's id or created_at,
\* and no other document is modified.
C9_UpdateFrame ==
    last.op = "update_channel" =>
        LET channel_id == last.args[1]
            channel_update == last.args[2]
            old == before.channels
        IN /\ Len(channels) = Len(old)
           /\ \A i \in 1..Len(old) :
                 /\ DOMAIN channels[i] = DOMAIN old[i]
                 /\ channels[i].id = old[i].id
                 /\ channels[i].created_at = old[i].created_at
           /\ last.resp.status = 200 =>
                 /\ \E i \in 1..Len(old) : old[i].id = channel_id
                 /\ \A i \in 1..Len(old) :
                       IF old[i].id = channel_id
                       THEN /\ \A f \in ChannelUpdateFields :
                                 channels[i][f] =
                                   IF channel_update[f] = None THEN old[i][f]
                                   ELSE IF f = "description" THEN channel_update[f]
                                   ELSE channel_update[f][1]
                            /\ last.resp.body = Some(channels[i])
                       ELSE channels[i] = old[i]

\* an update that named only the name changed one of two documents
C9_Witness ==
    /\ last.op = "update_channel"
    /\ last.resp.status = 200
    /\ last.args[2] = [NoUpdate EXCEPT !["name"] = Some(UpdatedTestChannel)]
    /\ Len(channels) = 2
    /\ channels # before.channels

\* C10: an update whose payload has no non-null field answers 400 for every
\* id, known or unknown, and leaves the channels as they were.
C10_EmptyUpdateRejected ==
    /\ \A channel_id \in ChannelIds :
          /\ update_channel(channels, channel_id, NoUpdate).resp.status = 400
          /\ update_channel(channels, channel_id, NoUpdate).coll = channels
    /\ (last.op = "update_channel" /\ DOMAIN UpdateData(last.args[2]) = {}) =>
          /\ last.resp.status = 400
          /\ channels = before.channels

\* an empty update of an id no channel has was answered 400, and one of an
\* id a channel has would be
C10_Witness ==
    /\ last.op = "update_channel"
    /\ last.args[2] = NoUpdate
    /\ last.resp.status = 400
    /\ find_one(channels, "id", last.args[1]) = None
    /\ channels # <<>>

\* C12: an update with a non-empty payload and a delete, of an id no
\* channel has, answer 404 and leave the channels as they were; no update
\* adds a document.
C12_UnknownIdNotFound ==
    /\ \A channel_id \in ChannelIds :
          find_one(channels, "id", channel_id) = None =>
             /\ delete_channel(channels, channel_id).resp.status = 404
             /\ delete_channel(channels, channel_id).coll = channels
             /\ \A channel_update \in UpdateInputs \ {NoUpdate} :
                   /\ update_channel(channels, channel_id,
                                     channel_update).resp.status = 404
                   /\ update_channel(channels, channel_id,
                                     channel_update).coll = channels
    /\ (/\ last.op \in {"update_channel", "delete_channel"}
        /\ last.op = "update_channel" => last.args[2] # NoUpdate
        /\ find_one(before.channels, "id", last.args[1]) = None) =>
          /\ last.resp.status = 404
          /\ channels = before.channels
    /\ last.op = "update_channel" => Len(channels) = Len(before.channels)

\* a delete of an id that was deleted before answered 404 while another
\* channel is in the store
C12_Witness ==
    /\ last.op = "delete_channel"
    /\ last.args[1] \in deleted
    /\ last.resp.status = 404
    /\ channels # <<>>

\* C13: a list with active_only true answers no inactive channel, whatever
\* the other two filters, and answers every active channel that the other
\* two filters match, in store order, up to the cap: so it is of the list
\* just answered, and of every list that could be asked for next.
C13_ActiveOnly ==
    last.op = "get_channels" =>
        /\ (last.args[3] /\ last.resp.status = 200) =>
              LET wanted == SelectSeq(channels,
                              LAMBDA d : /\ d.is_active
                                         /\ MatchesFilter(d, last.args[1],
                                                          last.args[2], FALSE))
              IN /\ \A d \in Range(last.resp.body) : d.is_active
                 /\ last.resp.body = SubSeq(wanted, 1, Min(Len(wanted), ListCap))
        /\ \A category \in CategoryFilters, search \in SearchFilters :
              LET r == get_channels(channels, category, search, TRUE)
                  wanted == SelectSeq(channels,
                              LAMBDA d : /\ d.is_active
                                         /\ MatchesFilter(d, category, search, FALSE))
              IN r.status = 200 =>
                    /\ \A d \in Range(r.body) : d.is_active
                    /\ r.body = SubSeq(wanted, 1, Min(Len(wanted), ListCap))

\* a list was answered while the store holds an active and an inactive
\* channel of one category: the default list has the first and not the
\* second
C13_Witness ==
    /\ last.op = "get_channels"
    /\ last.resp.status = 200
    /\ \E i \in 1..Len(channels), j \in 1..Len(channels) :
          /\ channels[i].is_active /\ ~channels[j].is_active
          /\ channels[i].category = channels[j].category
          /\ get_channels(channels, Some(channels[i].category), None, TRUE).body
               = <<channels[i]>>

\* s contains sub as a substring, letter case ignored
ContainsIgnoringCase(sub, s) ==
    \E i \in 0..(Len(s) - Len(sub)) :
        \A j \in 1..Len(sub) : Fold(s[i + j]) = Fold(sub[j])

\* C14: for every category and search string, those with ".", "*" or "("
\* included, the list succeeds and answers exactly the channels whose
\* category contains the category string and whose name contains the search
\* string as literal substrings, letter case ignored; an absent or empty
\* string restricts nothing.
C14_LiteralSubstring ==
    \A category \in CategoryFilters, search \in SearchFilters,
       active_only \in BOOLEAN :
        LET r == get_channels(channels, category, search, active_only)
        IN /\ r.status = 200
           /\ r.body = SelectSeq(channels,
                LAMBDA d :
                   /\ active_only => d.is_active
                   /\ (category # None /\ category[1] # <<>>) =>
                          ContainsIgnoringCase(category[1], d.category)
                   /\ (search # None /\ search[1] # <<>>) =>
                          ContainsIgnoringCase(search[1], d.name))

\* the category values of the documents of chs
CategoriesOf(chs) == {chs[i].category : i \in 1..Len(chs)}

\* the entries of a categories response: each names a category of the
\* store with the number of its documents, active or not, and the entries
\* are in ascending order of name
CountsAreExact(body, chs) ==
    /\ \A i \in 1..Len(body) :
          /\ body[i].name \in CategoriesOf(chs)
          /\ body[i].count =
               Cardinality({j \in 1..Len(chs) : chs[j].category = body[i].name})
          /\ body[i].count > 0
    /\ \A i \in 1..(Len(body) - 1) : StrLess(body[i].name, body[i + 1].name)

\* C15 as stated: the categories response has one entry per category of
\* the store, with exact non-zero counts in ascending order of name, and
\* the counts add up to the number of documents.
C15_CategoryCounts ==
    last.op = "get_categories" =>
        /\ last.resp.status = 200
        /\ CountsAreExact(last.resp.body, channels)
        /\ Len(last.resp.body) = Cardinality(CategoriesOf(channels))
        /\ SumCounts(last.resp.body) = Len(channels)

\* C15, with the cap: the categories response has one entry for each of
\* the first 100 categories of the store in ascending order of name (all
\* of them when the store has at most 100), with exact non-zero counts; the
\* counts add up to the number of documents when the store has at most 100
\* categories.
C15_CategoryCountsCapped ==
    last.op = "get_categories" =>
        LET body == last.resp.body
            named == {body[i].name : i \in 1..Len(body)}
        IN /\ last.resp.status = 200
           /\ CountsAreExact(body, channels)
           /\ Len(body) = Min(Cardinality(CategoriesOf(channels)), CategoryCap)
           /\ \A c \in CategoriesOf(channels) \ named :
                 \A i \in 1..Len(body) : StrLess(body[i].name, c)
           /\ Cardinality(CategoriesOf(channels)) <= CategoryCap =>
                 SumCounts(body) = Len(channels)

\* the categories were asked for of a store with more than 100 categories
\* and an inactive channel, and 100 entries were answered
C15_Witness ==
    /\ last.op = "get_categories"
    /\ Cardinality(CategoriesOf(channels)) > CategoryCap
    /\ Len(last.resp.body) = CategoryCap
    /\ \E d \in Range(channels) : ~d.is_active

\* C16: the seed on a store that holds a document inserts nothing and
\* reports the number of documents; after a seed on the empty store the
\* store holds the sample dataset, and a second seed changes nothing and
\* reports the count the first reported.
C16_SeedOnce ==
    /\ channels # <<>> =>
          LET r == initialize_sample_data(channels, nextId, clock)
          IN /\ r.coll = channels
             /\ r.resp.status = 200
             /\ r.resp.body.channels = Len(channels)
    /\ (last.op = "initialize_sample_data" /\ before.channels # <<>>) =>
          /\ channels = before.channels
          /\ last.resp.body.channels = Len(before.channels)
    /\ (last.op = "initialize_sample_data" /\ before.channels = <<>>) =>
          LET again == initialize_sample_data(channels, nextId, clock)
          IN /\ Len(channels) = Len(sample_channels)
             /\ last.resp.body.channels_created = Len(sample_channels)
             /\ again.coll = channels
             /\ again.resp.body.channels = last.resp.body.channels_created

\* a seed was refused on a store that holds only a created channel
C16_Witness ==
    /\ last.op = "initialize_sample_data"
    /\ before.channels # <<>>
    /\ channels = before.channels
    /\ \A d \in Range(channels) : d.name # TelePacific

-----------------------------------------------------------------------------
(* Claims on both stores, a request sent only when the earlier ones have   *)
(* been answered (SpecStores)                                              *)

\* C18: create, update, delete and seed leave the favorites collection as
\* it was; a toggle succeeds in every state for every channel id, and
\* toggle and replace succeed whether or not a channel has the id and store
\* it.
C18_FavoritesIndependent ==
    /\ last.op \in {"create_channel", "update_channel", "delete_channel",
                    "initialize_sample_data"} =>
          favorites = before.favorites
    /\ \A user_id \in Users, channel_id \in FavIds :
          toggle_favorite(favorites, user_id, channel_id, clock).resp.status = 200
    /\ last.op = "toggle_favorite" =>
          /\ last.resp.status = 200
          /\ UserList(favorites, last.args[1]) =
               ToggleList(UserList(before.favorites, last.args[1]),
                          last.args[2]).channel_ids
          /\ channels = before.channels
    /\ last.op = "update_user_favorites" =>
          /\ last.resp.status = 200
          /\ UserList(favorites, last.args[1]) = last.args[2]
          /\ channels = before.channels

\* a channel was deleted whose id is in a user's channel_ids, and is still
C18_Witness ==
    /\ last.op = "delete_channel"
    /\ last.resp.status = 200
    /\ \E user_id \in Users :
          last.args[1] \in Range(UserList(favorites, user_id))

\* the number of occurrences of x in the list s
Occurrences(s, x) == Cardinality({i \in 1..Len(s) : s[i] = x})

\* C22: a toggle handled alone leaves the channels as they were, leaves
\* the documents of every other user as they were, and changes of the
\* user's document only channel_ids and updated_at; every channel id other
\* than the one toggled occurs in channel_ids as often as before.
C22_ToggleFrame ==
    last.op = "toggle_favorite" =>
        LET user_id == last.args[1]
            channel_id == last.args[2]
            old == before.favorites
            had == \E i \in 1..Len(old) : old[i].user_id = user_id
        IN /\ channels = before.channels
           /\ Len(favorites) = IF had THEN Len(old) ELSE Len(old) + 1
           /\ \A i \in 1..Len(old) :
                 IF old[i].user_id # user_id THEN favorites[i] = old[i]
                 ELSE /\ DOMAIN favorites[i] = DOMAIN old[i]
                      /\ \A f \in DOMAIN old[i] \ {"channel_ids", "updated_at"} :
                            favorites[i][f] = old[i][f]
           /\ ~had => favorites[Len(favorites)].user_id = user_id
           /\ \A x \in (Range(UserList(old, user_id))
                          \cup Range(UserList(favorites, user_id))) \ {channel_id} :
                 Occurrences(UserList(favorites, user_id), x)
                   = Occurrences(UserList(old, user_id), x)

\* a toggle added an id to a list that holds another id, while the store
\* has a channel
C22_Witness ==
    /\ last.op = "toggle_favorite"
    /\ last.resp.action = "added"
    /\ Len(UserList(favorites, last.args[1])) >= 2
    /\ channels # <<>>

-----------------------------------------------------------------------------
(* Claims on interleaved User Favorites requests                           *)
(* (SpecToggleTasks, SpecTasks)                                            *)

\* tasks f and g have each finished a request, f's began with no other in
\* progress, g's began while f's was in progress, and no other request
\* began since f's
RanConcurrently(f, g) ==
    /\ f # g
    /\ pc[f] = "idle" /\ pc[g] = "idle"
    /\ call[f].op # "none" /\ call[g].op # "none"
    /\ pending[f] = {} /\ joins[f] = 1
    /\ pending[g] = {f} /\ joins[g] = 0

\* task t has finished a request that no other request overlapped, and no
\* request began since
RanAlone(t) ==
    /\ pc[t] = "idle"
    /\ call[t].op # "none"
    /\ pending[t] = {} /\ joins[t] = 0

\* C1: two concurrent toggles of one user end with the channel_ids that
\* the two toggles give one after the other, in one of the two orders.
C1_ConcurrentTogglesNotLost ==
    \A f \in Tasks, g \in Tasks :
        (/\ RanConcurrently(f, g)
         /\ call[f].op = "toggle_favorite" /\ call[g].op = "toggle_favorite"
         /\ call[f].user_id = call[g].user_id) =>
            LET cf == call[f].channel_id
                cg == call[g].channel_id
            IN UserList(favorites, call[f].user_id) \in
                 { ToggleList(ToggleList(base[f], cf).channel_ids, cg).channel_ids,
                   ToggleList(ToggleList(base[f], cg).channel_ids, cf).channel_ids }

\* C3: the favorites collection holds at most one document per user_id.
C3_OneRecordPerUser ==
    \A user_id \in Users :
        Cardinality({i \in 1..Len(favorites) : favorites[i].user_id = user_id}) <= 1

\* C6: after a replace that ran with no other request interleaved, exactly
\* one document of the user exists, its channel_ids is the list supplied
\* as given, and the response is that record.
C6_ReplaceOverwrites ==
    \A t \in Tasks :
        (RanAlone(t) /\ call[t].op = "update_user_favorites") =>
            /\ Cardinality({i \in 1..Len(favorites) :
                              favorites[i].user_id = call[t].user_id}) = 1
            /\ UserList(favorites, call[t].user_id) = call[t].channel_ids
            /\ ret[t].status = 200
            /\ ret[t].body.user_id = call[t].user_id
            /\ ret[t].body.channel_ids = call[t].channel_ids

\* C7: under interleaved toggle and get-or-create requests no channel id
\* occurs twice in a document's channel_ids.
C7_NoRepeatedIds ==
    \A i \in 1..Len(favorites) :
        \A j \in 1..Len(favorites[i].channel_ids),
           k \in 1..Len(favorites[i].channel_ids) :
            j # k => favorites[i].channel_ids[j] # favorites[i].channel_ids[k]

\* two concurrent toggles of the same channel for the same user have both
\* written, and the list holds the channel once
C7_Witness ==
    \E f \in Tasks, g \in Tasks :
        /\ RanConcurrently(f, g)
        /\ call[f] = call[g]
        /\ call[f].op = "toggle_favorite"
        /\ ret[f].action = "added" /\ ret[g].action = "added"
        /\ UserList(favorites, call[f].user_id) = <<call[f].channel_id>>

-----------------------------------------------------------------------------
(* Claims on interleaved channel requests and on storage calls that raise  *)
(* (SpecSeedTasks, SpecFaults)                                             *)

\* task t has finished a request
Finished(t) == pc[t] = "idle" /\ call[t].op # "none"

\* C11: an update, delete or toggle that answered an error has changed
\* neither collection, and one that changed a collection answered success,
\* whatever other requests were interleaved with it and whichever of its
\* storage calls raised.
C11_AllOrNothing ==
    \A t \in Tasks :
        (/\ Finished(t)
         /\ call[t].op \in {"update_channel", "delete_channel", "toggle_favorite"}) =>
            /\ ret[t].status # 200 => ~wrote[t]
            /\ wrote[t] => ret[t].status = 200

\* the positions in channels of the documents that a seed request inserted
\* for entry k of the sample dataset
SeededCopies(k) ==
    {i \in 1..Len(channels) :
        \E r \in 1..Len(seeds) : channels[i].id = seeds[r].first + k - 1}

\* the seed requests whose count_documents answered while another seed
\* request was between its count_documents and its insert_many
OverlappedSeeds == {r \in 1..Len(seeds) : seeds[r].overlapped}

\* C17: whatever seed and create requests are interleaved, the store never
\* holds the sample dataset more than once: no entry of the sample dataset
\* has two documents that seed requests inserted.
C17_SeededAtMostOnce ==
    \A k \in 1..Len(sample_channels) : Cardinality(SeededCopies(k)) <= 1

\* C17, as the code has it: whatever seed and create requests are
\* interleaved, the store holds at most one copy of the sample dataset
\* more than there were seed requests whose emptiness check ran while
\* another seed request was between its check and its insert; when no two
\* seed requests overlap in that way it holds at most one copy, whatever
\* create requests ran in between.
C17_SeededOncePerCheck ==
    \A k \in 1..Len(sample_channels) :
        Cardinality(SeededCopies(k)) <= 1 + Cardinality(OverlappedSeeds)

\* a seed request has inserted the sample dataset with a create of a
\* channel named as a sample channel between its check and its insert, and
\* a later seed request has answered that the data is already there
C17_Witness ==
    /\ Len(seeds) = 1
    /\ OverlappedSeeds = {}
    /\ \A k \in 1..Len(sample_channels) : Cardinality(SeededCopies(k)) = 1
    /\ Cardinality({i \in 1..Len(channels) : channels[i].name = TeleGinen}) = 2
    /\ channels[1].name = TeleGinen
    /\ \E t \in Tasks :
          /\ Finished(t)
          /\ call[t].op = "initialize_sample_data"
          /\ ret[t].body.message = "Data already initialized"
          /\ ret[t].body.channels = Len(channels)

\* C19: a get, update or delete answers 500 only when one of its storage
\* calls raised; an update with an empty payload answers 400; a get, update
\* or delete of an id no channel has, run alone with no storage call
\* raising, answers 404.
C19_ErrorKinds ==
    \A t \in Tasks :
        (/\ Finished(t)
         /\ call[t].op \in {"get_channel", "update_channel", "delete_channel"}) =>
            LET empty == /\ call[t].op = "update_channel"
                         /\ DOMAIN UpdateData(call[t].channel_update) = {}
            IN /\ ret[t].status = 500 => failed[t]
               /\ empty => ret[t].status = 400
               /\ (RanAlone(t) /\ ~empty /\ ~failed[t] /\ base[t] = None) =>
                     ret[t].status = 404

\* C20: a replace and a toggle of one user that ran concurrently end with
\* the channel_ids that one of the two serial orders gives: the list
\* supplied with the channel toggled, or the list supplied.
C20_ConcurrentReplaceNotLost ==
    \A f \in Tasks, g \in Tasks :
        (/\ \/ RanConcurrently(f, g)
            \/ RanConcurrently(g, f)
         /\ call[f].op = "update_user_favorites"
         /\ call[g].op = "toggle_favorite"
         /\ call[f].user_id = call[g].user_id) =>
            UserList(favorites, call[f].user_id) \in
                { ToggleList(call[f].channel_ids, call[g].channel_id).channel_ids,
                  call[f].channel_ids }

====
